---- MODULE Spec2Model ----
(***************************************************************************)
(* Model of app.py, the Streamlit portfolio tracker: one run of the script *)
(* (load_holdings, the data editor, the save/reload buttons, the upload    *)
(* and download widgets, fetch_quotes, compute_portfolio, the summary KPIs *)
(* and the detail table), with the market-data source as the environment.  *)
(*                                                                         *)
(* Floating-point values are modelled as IEEE-754 values over exact        *)
(* rationals: a finite number is a reduced fraction n/d, and NaN, +inf and *)
(* -inf behave as they do in float64 arithmetic (x/0 = +-inf, 0/0 = NaN,   *)
(* inf*0 = NaN, inf-inf = NaN, NaN absorbs).  Rounding is not modelled.    *)
(* pandas' missing value (NaN, and None in a numeric column) is NaN.       *)
(***************************************************************************)
EXTENDS Integers, Sequences, FiniteSets, TLC

----------------------------------------------------------------------------
(* Bounds of the model *)

\* The largest number of rows of a holdings table.
MaxRows == 2

----------------------------------------------------------------------------
(* float64 values *)

Abs(x) == IF x < 0 THEN -x ELSE x

RECURSIVE GCD(_, _)
GCD(a, b) == IF b = 0 THEN a ELSE GCD(b, a % b)

NaN == [k |-> "nan", n |-> 0, d |-> 1]

Inf(s) == [k |-> "inf", n |-> s, d |-> 1]

\* The finite number n/d (d # 0), as a reduced fraction with d > 0.
Num(n, d) ==
    LET g == GCD(Abs(n), Abs(d))
        s == IF d < 0 THEN -1 ELSE 1
    IN  [k |-> "num", n |-> (s * n) \div g, d |-> (s * d) \div g]

Fin(i) == Num(i, 1)

IsNaN(v) == v.k = "nan"

IsInf(v) == v.k = "inf"

IsFinite(v) == v.k = "num"

\* The sign of a value that is not NaN; zero counts as positive zero.
Sgn(v) == IF v.n < 0 THEN -1 ELSE 1

IsZero(v) == v.k = "num" /\ v.n = 0

FMul(a, b) ==
    IF IsNaN(a) \/ IsNaN(b) THEN NaN
    ELSE IF IsInf(a) \/ IsInf(b)
         THEN IF IsZero(a) \/ IsZero(b) THEN NaN ELSE Inf(Sgn(a) * Sgn(b))
         ELSE Num(a.n * b.n, a.d * b.d)

FDiv(a, b) ==
    IF IsNaN(a) \/ IsNaN(b) THEN NaN
    ELSE IF IsInf(a)
         THEN IF IsInf(b) THEN NaN ELSE Inf(Sgn(a) * Sgn(b))
         ELSE IF IsInf(b) THEN Fin(0)
         ELSE IF IsZero(b)
              THEN IF IsZero(a) THEN NaN ELSE Inf(Sgn(a))
              ELSE Num(a.n * b.d, a.d * b.n)

FAdd(a, b) ==
    IF IsNaN(a) \/ IsNaN(b) THEN NaN
    ELSE IF IsInf(a)
         THEN IF IsInf(b) /\ b.n # a.n THEN NaN ELSE a
         ELSE IF IsInf(b) THEN b
         ELSE Num(a.n * b.d + b.n * a.d, a.d * b.d)

FNeg(a) == IF IsNaN(a) THEN NaN ELSE [a EXCEPT !.n = -a.n]

FSub(a, b) == FAdd(a, FNeg(b))

\* Series.sum(skipna=True): NaN terms are skipped, the empty sum is 0.
RECURSIVE SumSkipNa(_)
SumSkipNa(s) ==
    IF s = <<>> THEN Fin(0)
    ELSE IF IsNaN(Head(s)) THEN SumSkipNa(Tail(s))
         ELSE FAdd(Head(s), SumSkipNa(Tail(s)))

----------------------------------------------------------------------------
(* Tables and documents *)

\* Python's None in an object column (a blank Ticker cell, an unknown currency).
None == "<None>"

ColNames == {"Ticker", "Quantity", "CostBasis_AUD", "Notes"}

\* Two of the sixteen entries of DEFAULT_TICKERS: an ASX fund and a crypto pair.
DEFAULT_TICKERS == <<"NDQ.AX", "BTC-USD">>

\* One row of a holdings table.  A column the table lacks holds its
\* placeholder (None, NaN, "") in every row; "cols" says which columns exist.
Position(tk, q, cb) ==
    [Ticker |-> tk, Quantity |-> q, CostBasis_AUD |-> cb, Notes |-> ""]

Frame(cols, rows) == [cols |-> cols, rows |-> rows]

RECURSIVE MapSeq(_, _)
MapSeq(Op(_), s) ==
    IF s = <<>> THEN <<>> ELSE <<Op(Head(s))>> \o MapSeq(Op, Tail(s))

\* A number as a JSON token.  json.dump writes NaN and the infinities as the
\* bare tokens NaN, Infinity and -Infinity; DataFrame.to_json writes null.
Tok(t, v) == [tok |-> t, val |-> v]

NullTok == Tok("null", NaN)

\* A JSON document: "missing" (no file, or text that is not JSON), "array"
\* (valid JSON that is not an object of columns, such as [1, 2, 3]) or
\* "record" (an object of equally long arrays, one per column).
Doc(kind, cols, rows) == [kind |-> kind, cols |-> cols, rows |-> rows]

MissingDoc == Doc("missing", {}, <<>>)

ArrayDoc == Doc("array", {}, <<>>)

\* json.dump of one float (allow_nan is left at its default, True).
json_dump_float(v) ==
    IF IsNaN(v) THEN Tok("NaN", NaN)
    ELSE IF IsInf(v) THEN Tok(IF v.n > 0 THEN "Infinity" ELSE "-Infinity", v)
    ELSE Tok("number", v)

\* DataFrame.to_json of one float: a non-finite value becomes null.
to_json_float(v) == IF IsFinite(v) THEN Tok("number", v) ELSE NullTok

\* json.load of one numeric token; null loads as None, a missing value.
json_load_float(t) ==
    IF t.tok = "number" THEN t.val
    ELSE IF t.tok = "Infinity" THEN Inf(1)
    ELSE IF t.tok = "-Infinity" THEN Inf(-1)
    ELSE NaN

\* The document of a table, each float written by Enc.
Serialize(Enc(_), df) ==
    LET row(r) == [Ticker |-> r.Ticker,
                   Quantity |-> Enc(r.Quantity),
                   CostBasis_AUD |-> Enc(r.CostBasis_AUD),
                   Notes |-> r.Notes]
    IN  Doc("record", df.cols, MapSeq(row, df.rows))

\* pd.DataFrame(json.load(...)) of a record document.
ParseRecord(doc) ==
    LET row(r) == [Ticker |-> r.Ticker,
                   Quantity |-> json_load_float(r.Quantity),
                   CostBasis_AUD |-> json_load_float(r.CostBasis_AUD),
                   Notes |-> r.Notes]
    IN  Frame(doc.cols, MapSeq(row, doc.rows))

\* The table load_holdings builds when the file cannot be read.
DefaultHoldings ==
    LET row(tk) == Position(tk, Fin(0), Fin(0))
    IN  Frame(ColNames, MapSeq(row, DEFAULT_TICKERS))

\* pd.to_numeric(..., errors="coerce").fillna(0.0)
Coerce(v) == IF IsNaN(v) THEN Fin(0) ELSE v

\* load_holdings: [ok, err, df].  The three column reads after the try block
\* raise KeyError on a document that lacks the column; only Notes is added.
load_holdings(file) ==
    LET df == IF file.kind = "record" THEN ParseRecord(file)
              ELSE IF file.kind = "array" THEN Frame({}, <<>>)
              ELSE DefaultHoldings
        row(r) == [Ticker |-> IF r.Ticker = None THEN "None" ELSE r.Ticker,
                   Quantity |-> Coerce(r.Quantity),
                   CostBasis_AUD |-> Coerce(r.CostBasis_AUD),
                   Notes |-> r.Notes]
    IN  IF "Quantity" \notin df.cols
        THEN [ok |-> FALSE, err |-> "load_holdings: KeyError Quantity", df |-> df]
        ELSE IF "CostBasis_AUD" \notin df.cols
        THEN [ok |-> FALSE, err |-> "load_holdings: KeyError CostBasis_AUD", df |-> df]
        ELSE IF "Ticker" \notin df.cols
        THEN [ok |-> FALSE, err |-> "load_holdings: KeyError Ticker", df |-> df]
        ELSE [ok |-> TRUE, err |-> "",
              df |-> Frame(df.cols \cup {"Notes"}, MapSeq(row, df.rows))]

\* save_holdings: the document json.dump writes to holdings.json.
save_holdings(df) == Serialize(json_dump_float, df)

\* edited.to_json(...): the payload of the download button.
to_json(df) == Serialize(to_json_float, df)

----------------------------------------------------------------------------
(* The market-data source and the pricing helpers *)

\* What obj.fast_info does for one ticker: it raises, or it answers with a
\* last price, a previous close, an open and a currency, each possibly None.
FastInfo(raises, price, prev, open, cur) ==
    [raises |-> raises, last_price |-> price, previous_close |-> prev,
     open |-> open, currency |-> cur]

\* One row of the quotes table.
Quote(tk, price, prev, open, cur) ==
    [Ticker |-> tk, Price |-> price, PrevClose |-> prev, Open |-> open,
     Currency |-> cur]

QuoteCols == {"Ticker", "Price", "PrevClose", "Open", "Currency"}

RECURSIVE Dedupe(_, _)
\* The keys of the dict yf.Tickers builds: each ticker once, in first-seen order.
Dedupe(s, seen) ==
    IF s = <<>> THEN <<>>
    ELSE IF Head(s) \in seen THEN Dedupe(Tail(s), seen)
         ELSE <<Head(s)>> \o Dedupe(Tail(s), seen \cup {Head(s)})

Range(s) == {s[i] : i \in DOMAIN s}

\* The row fetch_quotes appends for one ticker: the snapshot, or the all-NaN
\* row of the except branch.
QuoteRow(tk, info) ==
    IF info.raises THEN Quote(tk, NaN, NaN, NaN, None)
    ELSE Quote(tk, info.last_price, info.previous_close, info.open, info.currency)

\* fetch_quotes without the try/except around fast_info: a ticker whose
\* snapshot raises ends the call.
fetch_quotes_unguarded(tickers, snap) ==
    IF tickers = <<>>
    THEN [ok |-> TRUE, err |-> "", cols |-> {}, rows |-> <<>>]
    ELSE IF None \in Range(tickers)
    THEN [ok |-> FALSE, err |-> "fetch_quotes: TypeError join", cols |-> {},
          rows |-> <<>>]
    ELSE IF \E tk \in Range(tickers) : snap[tk].raises
    THEN [ok |-> FALSE, err |-> "fetch_quotes: fast_info raised", cols |-> {},
          rows |-> <<>>]
    ELSE LET row(tk) == QuoteRow(tk, snap[tk])
         IN  [ok |-> TRUE, err |-> "", cols |-> QuoteCols,
              rows |-> MapSeq(row, Dedupe(tickers, {}))]

\* fetch_quotes(tickers) when the source answers snap[tk] for ticker tk:
\* [ok, err, cols, rows].  An empty ticker list gives pd.DataFrame(), a table
\* without columns; " ".join raises TypeError on a None ticker.
fetch_quotes(tickers, snap) ==
    IF tickers = <<>>
    THEN [ok |-> TRUE, err |-> "", cols |-> {}, rows |-> <<>>]
    ELSE IF None \in Range(tickers)
    THEN [ok |-> FALSE, err |-> "fetch_quotes: TypeError join", cols |-> {},
          rows |-> <<>>]
    ELSE LET row(tk) == QuoteRow(tk, snap[tk])
         IN  [ok |-> TRUE, err |-> "", cols |-> QuoteCols,
              rows |-> MapSeq(row, Dedupe(tickers, {}))]

\* What yf.download of the hourly bars does: it raises, it returns fewer than
\* two bars, or it returns bars whose last two closes are prev and last.
Hist(kind, last, prev) == [kind |-> kind, last |-> last, prev |-> prev]

\* fetch_hourly_change
fetch_hourly_change(hist) ==
    IF hist.kind # "bars" THEN NaN
    ELSE IF ~IsZero(hist.prev)
         THEN FMul(FSub(FDiv(hist.last, hist.prev), Fin(1)), Fin(100))
         ELSE NaN

\* The fallback rate of get_audusd, 0.67, in hundredths.
FallbackRateCents == 67

\* get_audusd: the last AUDUSD close, or the fallback when the download fails.
get_audusd(fx) == IF fx.raises THEN Num(FallbackRateCents, 100) ELSE fx.rate

----------------------------------------------------------------------------
(* compute_portfolio *)

\* The quote columns of a row with no matching quote.
NoQuote == [Price |-> NaN, PrevClose |-> NaN, Open |-> NaN, Currency |-> None]

RECURSIVE SelectSeq2(_, _)
\* The rows of q whose Ticker is tk, in order.
SelectSeq2(q, tk) ==
    IF q = <<>> THEN <<>>
    ELSE IF Head(q).Ticker = tk THEN <<Head(q)>> \o SelectSeq2(Tail(q), tk)
         ELSE SelectSeq2(Tail(q), tk)

RECURSIVE merge(_, _)
\* holdings.merge(quotes, on="Ticker", how="left"): each holdings row, in
\* order, once per matching quote row, or once with absent quote columns.
merge(h, q) ==
    IF h = <<>> THEN <<>>
    ELSE LET m == SelectSeq2(q, Head(h).Ticker)
             join(x) == [pos |-> Head(h),
                         quo |-> [Price |-> x.Price, PrevClose |-> x.PrevClose,
                                  Open |-> x.Open, Currency |-> x.Currency]]
         IN  (IF m = <<>> THEN <<[pos |-> Head(h), quo |-> NoQuote]>>
              ELSE MapSeq(join, m)) \o merge(Tail(h), q)

\* to_aud converting every price that is not marked AUD.
to_aud_not_aud(price, cur, audusd) ==
    IF IsNaN(price) THEN NaN
    ELSE IF cur # "AUD" THEN FDiv(price, audusd)
    ELSE price

\* to_aud
to_aud(price, cur, audusd) ==
    IF IsNaN(price) THEN NaN
    ELSE IF cur = "USD" THEN FDiv(price, audusd)
    ELSE price

\* Market value with a missing operand counted as zero.
MarketValue_fillna(price_aud, quantity) ==
    FMul(IF IsNaN(price_aud) THEN Fin(0) ELSE price_aud,
         IF IsNaN(quantity) THEN Fin(0) ELSE quantity)

\* df["MarketValue_AUD"]
MarketValue(price_aud, quantity) == FMul(price_aud, quantity)

\* df["Intraday_%"]
IntradayPct(price, prev_close) ==
    FMul(FSub(FDiv(price, prev_close), Fin(1)), Fin(100))

\* One row of the table compute_portfolio returns.
PortfolioRow(m, audusd, hour) ==
    LET price_aud == to_aud(m.quo.Price, m.quo.Currency, audusd)
        mv == MarketValue(price_aud, m.pos.Quantity)
        cost == FMul(m.pos.CostBasis_AUD, m.pos.Quantity)
    IN  [Ticker |-> m.pos.Ticker, Quantity |-> m.pos.Quantity,
         CostBasis_AUD |-> m.pos.CostBasis_AUD, Notes |-> m.pos.Notes,
         Price |-> m.quo.Price, PrevClose |-> m.quo.PrevClose,
         Open |-> m.quo.Open, Currency |-> m.quo.Currency,
         Price_AUD |-> price_aud, MarketValue_AUD |-> mv, Cost_AUD |-> cost,
         Unrealised_PnL_AUD |-> FSub(mv, cost),
         Intraday_pct |-> IntradayPct(m.quo.Price, m.quo.PrevClose),
         Hour_pct |-> hour]

\* compute_portfolio(holdings, quotes) when get_audusd sees fx and the hourly
\* download for ticker tk sees hist[tk]: [ok, err, rows].  The merge raises
\* KeyError when either table lacks the Ticker column, and the column
\* arithmetic raises KeyError on a holdings table without the column.
compute_portfolio(holdings, quotes, fx, hist) ==
    LET audusd == get_audusd(fx)
        row(m) == PortfolioRow(m, audusd, fetch_hourly_change(hist[m.pos.Ticker]))
    IN  IF "Ticker" \notin holdings.cols \/ "Ticker" \notin quotes.cols
        THEN [ok |-> FALSE, err |-> "compute_portfolio: KeyError Ticker",
              rows |-> <<>>]
        ELSE IF "Quantity" \notin holdings.cols
        THEN [ok |-> FALSE, err |-> "compute_portfolio: KeyError Quantity",
              rows |-> <<>>]
        ELSE IF "CostBasis_AUD" \notin holdings.cols
        THEN [ok |-> FALSE, err |-> "compute_portfolio: KeyError CostBasis_AUD",
              rows |-> <<>>]
        ELSE [ok |-> TRUE, err |-> "",
              rows |-> MapSeq(row, merge(holdings.rows, quotes.rows))]

\* The terms of a percentage-weighted move: MarketValue_AUD * (pct / 100).
IntradayTerm(r) == FMul(r.MarketValue_AUD, FDiv(r.Intraday_pct, Fin(100)))

HourTerm(r) == FMul(r.MarketValue_AUD, FDiv(r.Hour_pct, Fin(100)))

MarketValueOf(r) == r.MarketValue_AUD

CostOf(r) == r.Cost_AUD

\* The summary KPIs.
SummaryKPIs(rows) ==
    LET total_mv == SumSkipNa(MapSeq(MarketValueOf, rows))
        total_cost == SumSkipNa(MapSeq(CostOf, rows))
    IN  [total_mv |-> total_mv,
         total_cost |-> total_cost,
         unreal |-> FSub(total_mv, total_cost),
         intraday_mv |-> SumSkipNa(MapSeq(IntradayTerm, rows)),
         hour_mv |-> SumSkipNa(MapSeq(HourTerm, rows))]

----------------------------------------------------------------------------
(* Inputs: what the user and the market-data source can supply *)

TickerNames == {"NDQ.AX", "BTC-USD"}

\* Rows the user can type into the data editor: a watch-only position, a held
\* position, a row whose numbers are still blank, and a wholly blank new row.
UserRows ==
    {Position("NDQ.AX", Fin(0), Fin(0)),
     Position("NDQ.AX", Fin(10), Fin(5)),
     Position("BTC-USD", NaN, NaN),
     Position(None, NaN, NaN)}

SeqsUpTo(S, n) == UNION {[1..k -> S] : k \in 0..n}

\* The tables the data editor can return (num_rows="dynamic": rows can be
\* added, changed and deleted, down to none).
UserTables == {Frame(ColNames, rows) : rows \in SeqsUpTo(UserRows, MaxRows)}

HeldRow == [Ticker |-> "NDQ.AX", Quantity |-> Tok("number", Fin(10)),
            CostBasis_AUD |-> Tok("number", Fin(5)), Notes |-> ""]

TickerOnlyRow == [Ticker |-> "NDQ.AX", Quantity |-> NullTok,
                  CostBasis_AUD |-> NullTok, Notes |-> ""]

\* A holdings document with every expected field.
FullDoc == Doc("record", ColNames, <<HeldRow>>)

\* Holdings documents that lack expected fields.
NoNotesDoc == Doc("record", ColNames \ {"Notes"}, <<HeldRow>>)

TickerOnlyDoc == Doc("record", {"Ticker"}, <<TickerOnlyRow>>)

\* An upload that json.loads or pd.DataFrame rejects (text that is not JSON,
\* arrays of unequal length, bare scalars).
GarbageDoc == Doc("garbage", {}, <<>>)

NoUpload == Doc("none", {}, <<>>)

\* The file an earlier run saved from a table with a still blank row.
SavedDoc ==
    save_holdings(Frame(ColNames, <<Position("NDQ.AX", Fin(10), Fin(5)),
                                    Position(None, NaN, NaN)>>))

\* holdings.json at the start of the run: absent, saved by an earlier run,
\* or put there by hand.
InitFiles == {MissingDoc, SavedDoc, TickerOnlyDoc}

Uploads == {NoUpload, GarbageDoc, ArrayDoc, FullDoc, NoNotesDoc, TickerOnlyDoc}

Snapshots ==
    {FastInfo(TRUE, NaN, NaN, NaN, None),
     FastInfo(FALSE, Fin(8), Fin(10), Fin(9), "AUD"),
     FastInfo(FALSE, Fin(8), Fin(0), Fin(9), "USD"),
     FastInfo(FALSE, NaN, Fin(10), Fin(9), "USD"),
     FastInfo(FALSE, Fin(8), NaN, NaN, None)}

Hists == {Hist("raise", NaN, NaN), Hist("bars", Fin(21), Fin(20)),
          Hist("bars", Fin(21), Fin(0))}

FxOutcomes == {[raises |-> TRUE, rate |-> NaN],
               [raises |-> FALSE, rate |-> Num(1, 2)]}

----------------------------------------------------------------------------
(* One run of the script *)

VARIABLES
    file,        \* the content of holdings.json
    holdings,    \* the table load_holdings returned
    edited,      \* the table the rest of the run works on
    clicked,     \* the button pressed in this run: "save", "reload" or "none"
    preUpload,   \* edited as it was when the upload widget was reached
    up,          \* the document uploaded in this run
    uploadError, \* st.error was shown by the upload handler
    payload,     \* the data of the download button
    snap,        \* what fast_info did for each ticker in this run
    quotes,      \* the table fetch_quotes returned
    fx,          \* what the AUDUSD download did in this run
    hist,        \* what the hourly download did for each ticker in this run
    portfolio,   \* the rows compute_portfolio returned
    kpis,        \* the summary KPIs
    base,        \* the KPIs of the holdings before a position was added
    pc,          \* the statement of the script that runs next
    abort        \* the exception that ended the run, "" when none did

vars == <<file, holdings, edited, clicked, preUpload, up, uploadError, payload, snap,
          quotes, fx, hist, portfolio, kpis, base, pc, abort>>

NoFrame == Frame({}, <<>>)

NoQuotes == [ok |-> TRUE, err |-> "", cols |-> {}, rows |-> <<>>]

NoKPIs == SummaryKPIs(<<>>)

NoFx == [raises |-> FALSE, rate |-> NaN]

Nobody == [tk \in {} |-> NaN]

\* The state of a run that has not started.
Fresh ==
    /\ holdings = NoFrame /\ edited = NoFrame /\ preUpload = NoFrame
    /\ clicked = "none"
    /\ up = NoUpload /\ uploadError = FALSE /\ payload = NoUpload
    /\ snap = Nobody /\ quotes = NoQuotes /\ fx = NoFx /\ hist = Nobody
    /\ portfolio = <<>> /\ kpis = NoKPIs /\ base = NoKPIs
    /\ abort = ""

Init == file \in InitFiles /\ pc = "load" /\ Fresh

Raise(err) == pc' = "aborted" /\ abort' = err

\* holdings = load_holdings()
LoadHoldings ==
    /\ pc = "load"
    /\ LET r == load_holdings(file)
       IN  IF r.ok THEN holdings' = r.df /\ pc' = "edit" /\ abort' = abort
           ELSE holdings' = holdings /\ Raise(r.err)
    /\ UNCHANGED <<file, edited, clicked, preUpload, up, uploadError, payload, snap,
                   quotes, fx, hist, portfolio, kpis, base>>

\* edited = st.data_editor(holdings, num_rows="dynamic", ...): the loaded
\* table, or any table the user's edits of this session turn it into.
DataEditor ==
    /\ pc = "edit"
    /\ edited' \in UserTables \cup {holdings}
    /\ pc' = "buttons"
    /\ UNCHANGED <<file, holdings, clicked, preUpload, up, uploadError, payload, snap,
                   quotes, fx, hist, portfolio, kpis, base, abort>>

\* The save button: save_holdings(edited).
SaveButton ==
    /\ pc = "buttons"
    /\ file' = save_holdings(edited)
    /\ clicked' = "save"
    /\ pc' = "upload"
    /\ UNCHANGED <<holdings, edited, preUpload, up, uploadError, payload, snap,
                   quotes, fx, hist, portfolio, kpis, base, abort>>

\* The reload button: holdings = load_holdings(); st.rerun() starts the
\* script again from the top.
ReloadButton ==
    /\ pc = "buttons"
    /\ LET r == load_holdings(file)
       IN  IF r.ok
           THEN /\ pc' = "load" /\ abort' = abort
                /\ holdings' = NoFrame /\ edited' = NoFrame /\ clicked' = "none"
           ELSE /\ Raise(r.err)
                /\ holdings' = holdings /\ edited' = edited /\ clicked' = "reload"
    /\ UNCHANGED <<file, preUpload, up, uploadError, payload, snap,
                   quotes, fx, hist, portfolio, kpis, base>>

\* Neither button was pressed in this run.
NoButton ==
    /\ pc = "buttons"
    /\ pc' = "upload"
    /\ UNCHANGED <<file, holdings, edited, clicked, preUpload, up, uploadError, payload,
                   snap, quotes, fx, hist, portfolio, kpis, base, abort>>

\* The upload handler's try block on document doc: [raised, df].
ParseUpload(doc) ==
    IF doc.kind = "garbage" THEN [raised |-> TRUE, df |-> NoFrame]
    ELSE IF doc.kind = "array" THEN [raised |-> FALSE, df |-> Frame({}, <<>>)]
    ELSE [raised |-> FALSE, df |-> ParseRecord(doc)]

\* up = st.file_uploader(...) and the import of the uploaded document.
Upload ==
    /\ pc = "upload"
    /\ \E doc \in Uploads :
         /\ up' = doc
         /\ preUpload' = edited
         /\ IF doc.kind = "none"
            THEN edited' = edited /\ uploadError' = FALSE
            ELSE LET r == ParseUpload(doc)
                 IN  /\ edited' = IF r.raised THEN edited ELSE r.df
                     /\ uploadError' = r.raised
    /\ pc' = "download"
    /\ UNCHANGED <<file, holdings, clicked, payload, snap, quotes, fx, hist, portfolio,
                   kpis, base, abort>>

\* st.download_button(data=edited.to_json(orient="list", ...)).  "list" is an
\* orient of DataFrame.to_dict; DataFrame.to_json documents split, records,
\* index, columns, values and table, and pandas builds answer any other
\* value with ValueError.  Both outcomes are kept: the payload is produced,
\* or the call raises and ends the run.
DownloadButton ==
    /\ pc = "download"
    /\ \/ payload' = to_json(edited) /\ pc' = "fetch" /\ abort' = abort
       \/ payload' = payload /\ Raise("to_json: ValueError orient")
    /\ UNCHANGED <<file, holdings, edited, clicked, preUpload, up, uploadError, snap,
                   quotes, fx, hist, portfolio, kpis, base>>

TickerOf(r) == r.Ticker

\* edited["Ticker"].tolist()
Tickers(df) == MapSeq(TickerOf, df.rows)

\* quotes = fetch_quotes(edited["Ticker"].tolist())
FetchQuotes ==
    /\ pc = "fetch"
    /\ IF "Ticker" \notin edited.cols
       THEN Raise("script: KeyError Ticker") /\ UNCHANGED <<snap, quotes>>
       ELSE \E s \in [Range(Tickers(edited)) \ {None} -> Snapshots] :
              LET r == fetch_quotes(Tickers(edited), s)
              IN  IF r.ok
                  THEN snap' = s /\ quotes' = r /\ pc' = "compute"
                       /\ abort' = abort
                  ELSE Raise(r.err) /\ UNCHANGED <<snap, quotes>>
    /\ UNCHANGED <<file, holdings, edited, clicked, preUpload, up, uploadError, payload,
                   fx, hist, portfolio, kpis, base>>

\* portfolio = compute_portfolio(edited, quotes)
ComputePortfolio ==
    /\ pc = "compute"
    /\ \E f \in FxOutcomes, h \in [Range(Tickers(edited)) -> Hists] :
         LET r == compute_portfolio(edited, quotes, f, h)
         IN  IF r.ok
             THEN /\ fx' = f /\ hist' = h /\ portfolio' = r.rows
                  /\ pc' = "summary" /\ abort' = abort
             ELSE Raise(r.err) /\ UNCHANGED <<fx, hist, portfolio>>
    /\ UNCHANGED <<file, holdings, edited, clicked, preUpload, up, uploadError, payload,
                   snap, quotes, kpis, base>>

\* The summary KPIs.
Summary ==
    /\ pc = "summary"
    /\ kpis' = SummaryKPIs(portfolio)
    /\ pc' = "table"
    /\ UNCHANGED <<file, holdings, edited, clicked, preUpload, up, uploadError, payload,
                   snap, quotes, fx, hist, portfolio, base, abort>>

\* fmt = portfolio[show_cols]: KeyError on a table without the Notes column.
DetailTable ==
    /\ pc = "table"
    /\ IF "Notes" \in edited.cols THEN pc' = "done" /\ abort' = abort
       ELSE Raise("show_cols: KeyError Notes")
    /\ UNCHANGED <<file, holdings, edited, clicked, preUpload, up, uploadError, payload,
                   snap, quotes, fx, hist, portfolio, kpis, base>>

Next ==
    \/ LoadHoldings
    \/ DataEditor
    \/ SaveButton
    \/ ReloadButton
    \/ NoButton
    \/ Upload
    \/ DownloadButton
    \/ FetchQuotes
    \/ ComputePortfolio
    \/ Summary
    \/ DetailTable

Spec == Init /\ [][Next]_vars

----------------------------------------------------------------------------
(* compute_portfolio and the KPIs as a function of arbitrary inputs: a      *)
(* holdings table H, a quotes table Q that need not cover H, and a further  *)
(* position whose ticker Q does not quote.                                  *)

\* Holdings rows with a ticker.
TickerRows == {r \in UserRows : r.Ticker # None}

\* The tickers a quotes table has rows for.
Quoted(q) == {q.rows[i].Ticker : i \in DOMAIN q.rows}

InitCP ==
    /\ file = MissingDoc /\ holdings = NoFrame /\ clicked = "none"
    /\ preUpload = NoFrame /\ up = NoUpload /\ uploadError = FALSE
    /\ payload = NoUpload /\ portfolio = <<>> /\ kpis = NoKPIs
    /\ base = NoKPIs /\ abort = ""
    /\ pc = "cp_compute"
    /\ edited \in {Frame(ColNames, rows) :
                     rows \in SeqsUpTo(TickerRows, MaxRows - 1)}
    /\ \E tk \in TickerNames :
         /\ snap \in [{tk} -> Snapshots]
         /\ quotes = fetch_quotes(<<tk>>, snap)
    /\ fx \in FxOutcomes
    /\ hist \in [TickerNames -> Hists]

\* portfolio = compute_portfolio(H, Q)
CPCompute ==
    /\ pc \in {"cp_compute", "cp_compute2"}
    /\ portfolio' = compute_portfolio(edited, quotes, fx, hist).rows
    /\ pc' = IF pc = "cp_compute" THEN "cp_summary" ELSE "cp_summary2"
    /\ UNCHANGED <<file, holdings, edited, clicked, preUpload, up, uploadError,
                   payload, snap, quotes, fx, hist, kpis, base, abort>>

\* The summary KPIs of the table just computed.
CPSummary ==
    /\ pc \in {"cp_summary", "cp_summary2"}
    /\ kpis' = SummaryKPIs(portfolio)
    /\ pc' = IF pc = "cp_summary" THEN "cp_add" ELSE "cp_done"
    /\ UNCHANGED <<file, holdings, edited, clicked, preUpload, up, uploadError,
                   payload, snap, quotes, fx, hist, portfolio, base, abort>>

\* A position whose ticker has no quote joins the holdings; the KPIs of the
\* holdings without it are kept for comparison.
CPAdd ==
    /\ pc = "cp_add"
    /\ \E p \in TickerRows :
         /\ p.Ticker \notin Quoted(quotes)
         /\ edited' = Frame(edited.cols, Append(edited.rows, p))
    /\ base' = kpis
    /\ pc' = "cp_compute2"
    /\ UNCHANGED <<file, holdings, clicked, preUpload, up, uploadError,
                   payload, snap, quotes, fx, hist, portfolio, kpis, abort>>

NextCP == CPCompute \/ CPSummary \/ CPAdd

SpecCP == InitCP /\ [][NextCP]_vars

----------------------------------------------------------------------------
(* Properties *)

\* compute_portfolio has returned its table in this run.
ComputeReturned ==
    \/ pc \in {"summary", "table", "done"}
    \/ pc = "aborted" /\ abort = "show_cols: KeyError Notes"

\* compute_portfolio has raised in this run.
ComputeRaised ==
    /\ pc = "aborted"
    /\ abort \in {"compute_portfolio: KeyError Ticker",
                  "compute_portfolio: KeyError Quantity",
                  "compute_portfolio: KeyError CostBasis_AUD"}

\* The KPIs of this run have been computed.
Summarised ==
    \/ pc \in {"table", "done"}
    \/ pc = "aborted" /\ abort = "show_cols: KeyError Notes"

Rows == DOMAIN portfolio

\* C1: for every holdings table with its four columns and every quotes table
\* fetch_quotes returned for its tickers (the column-less table of an empty
\* ticker list included), compute_portfolio completes and returns exactly one
\* row per holdings row.
C1_JoinCompleteness ==
    (ComputeReturned \/ ComputeRaised) /\ edited.cols = ColNames
        => ComputeReturned /\ Len(portfolio) = Len(edited.rows)

\* C2: a row whose Price is present and whose PrevClose is 0 has an absent
\* Intraday_%, and the intraday-move total it enters is not infinite.
C2_ZeroDivisionSafety ==
    /\ ComputeReturned =>
         \A i \in Rows :
            ~IsNaN(portfolio[i].Price) /\ IsZero(portfolio[i].PrevClose)
                => IsNaN(portfolio[i].Intraday_pct)
    /\ Summarised => ~IsInf(kpis.intraday_mv)

\* A table on which the quote fetch or the valuation raises whatever the
\* market-data source does: no rows, a blank ticker, or a missing column.
Unprocessable(df) ==
    \/ {"Ticker", "Quantity", "CostBasis_AUD"} \ df.cols # {}
    \/ df.rows = <<>>
    \/ None \in Range(Tickers(df))

\* The exceptions that end a run outside the quote fetch and the valuation.
OtherAborts ==
    {"load_holdings: KeyError Quantity", "load_holdings: KeyError CostBasis_AUD",
     "load_holdings: KeyError Ticker", "to_json: ValueError orient",
     "show_cols: KeyError Notes"}

\* The source failed for ticker tk in this run (snapshot or hourly bars).
Failed(tk) == snap[tk].raises \/ hist[tk].kind = "raise"

OkSnapshots == {q \in Snapshots : ~q.raises}

OkHists == {h \in Hists : h.kind # "raise"}

\* The table of this run had the source answered q and h where it failed.
WithoutFailure(q, h) ==
    LET s2 == [tk \in DOMAIN snap |-> IF snap[tk].raises THEN q ELSE snap[tk]]
        h2 == [tk \in DOMAIN hist |->
                 IF hist[tk].kind = "raise" THEN h ELSE hist[tk]]
    IN  compute_portfolio(edited, fetch_quotes(Tickers(edited), s2), fx, h2).rows

\* C3: a failure of the market-data source never ends the run.  A run ends
\* in the quote fetch or the valuation only on a table that raises whatever
\* the source does; otherwise the run completes, a ticker whose snapshot
\* failed has absent quote fields and derived values, a ticker whose hourly
\* download failed has an absent Hour_%, a failed FX download prices USD rows
\* at 0.67, and the row of every ticker that did not fail is the row of the
\* run in which no ticker failed.
C3_FetchFailuresNeverAbort ==
    /\ pc = "aborted" /\ abort \notin OtherAborts => Unprocessable(edited)
    /\ ComputeReturned =>
         /\ Len(portfolio) = Len(edited.rows)
         /\ \A i \in Rows :
              LET r == portfolio[i]
              IN  /\ snap[r.Ticker].raises =>
                       /\ IsNaN(r.Price) /\ IsNaN(r.PrevClose) /\ IsNaN(r.Open)
                       /\ r.Currency = None
                       /\ IsNaN(r.Price_AUD) /\ IsNaN(r.MarketValue_AUD)
                       /\ IsNaN(r.Unrealised_PnL_AUD) /\ IsNaN(r.Intraday_pct)
                  /\ hist[r.Ticker].kind = "raise" => IsNaN(r.Hour_pct)
                  /\ fx.raises /\ r.Currency = "USD" =>
                       r.Price_AUD = FDiv(r.Price, Num(67, 100))
    /\ pc = "summary" /\ (\E tk \in DOMAIN snap : Failed(tk)) =>
         \A q \in OkSnapshots, h \in OkHists :
            LET w == WithoutFailure(q, h)
            IN  \A i \in Rows :
                   ~Failed(portfolio[i].Ticker) => w[i] = portfolio[i]

\* C3 witness: a completed run of two tickers in which the snapshot and the
\* hourly download of one failed, the FX download failed, and the other
\* ticker, quoted in USD, was priced.
C3_Witness ==
    /\ pc = "done"
    /\ fx.raises
    /\ \E i, j \in Rows :
         /\ snap[portfolio[i].Ticker].raises
         /\ hist[portfolio[i].Ticker].kind = "raise"
         /\ ~Failed(portfolio[j].Ticker)
         /\ portfolio[j].Currency = "USD"
         /\ IsFinite(portfolio[j].MarketValue_AUD)

\* The plain sum of a sequence: a NaN term makes the sum NaN.
RECURSIVE PlainSum(_)
PlainSum(s) == IF s = <<>> THEN Fin(0) ELSE FAdd(Head(s), PlainSum(Tail(s)))

RECURSIVE PresentTerms(_, _, _)
\* Term(r) for the rows r whose market value and percentage are both present.
PresentTerms(Term(_), Pct(_), rows) ==
    IF rows = <<>> THEN <<>>
    ELSE (IF ~IsNaN(Head(rows).MarketValue_AUD) /\ ~IsNaN(Pct(Head(rows)))
          THEN <<Term(Head(rows))>> ELSE <<>>)
         \o PresentTerms(Term, Pct, Tail(rows))

IntradayPctOf(r) == r.Intraday_pct

HourPctOf(r) == r.Hour_pct

\* C5: the intraday and hour moves are the sums of MarketValue_AUD * pct / 100
\* over exactly the positions whose market value and percentage are present.
C5_WeightedSums ==
    Summarised =>
        /\ kpis.intraday_mv =
             PlainSum(PresentTerms(IntradayTerm, IntradayPctOf, portfolio))
        /\ kpis.hour_mv = PlainSum(PresentTerms(HourTerm, HourPctOf, portfolio))

\* C6: Price_AUD is absent when Price is absent, Price / rate when Currency
\* is exactly "USD", and Price for any other currency, None included, with
\* one nonzero rate for all rows of the run: the rate of the FX download, or
\* 0.67 when it failed.
C6_CurrencyConversion ==
    ComputeReturned =>
        LET rate == IF fx.raises THEN Num(67, 100) ELSE fx.rate
        IN  /\ ~IsZero(rate) /\ IsFinite(rate)
            /\ \A i \in Rows :
                 LET r == portfolio[i]
                 IN  r.Price_AUD =
                        IF IsNaN(r.Price) THEN NaN
                        ELSE IF r.Currency = "USD" THEN FDiv(r.Price, rate)
                        ELSE r.Price

\* C6 witness: a computed table with a priced USD row and a priced row of
\* unknown currency.
C6_Witness ==
    /\ ComputeReturned
    /\ \E i, j \in Rows :
         /\ portfolio[i].Currency = "USD" /\ IsFinite(portfolio[i].Price)
         /\ portfolio[i].Price_AUD # portfolio[i].Price
         /\ portfolio[j].Currency = None /\ IsFinite(portfolio[j].Price)

\* C7: a row whose Price is absent has absent Price_AUD, MarketValue_AUD,
\* Unrealised_PnL_AUD and Intraday_%; a row whose Price_AUD or Quantity is
\* absent has absent MarketValue_AUD and Unrealised_PnL_AUD.
C7_AbsentPropagation ==
    ComputeReturned =>
        \A i \in Rows :
           LET r == portfolio[i]
           IN  /\ IsNaN(r.Price) =>
                    /\ IsNaN(r.Price_AUD) /\ IsNaN(r.MarketValue_AUD)
                    /\ IsNaN(r.Unrealised_PnL_AUD) /\ IsNaN(r.Intraday_pct)
               /\ IsNaN(r.Price_AUD) \/ IsNaN(r.Quantity) =>
                    IsNaN(r.MarketValue_AUD) /\ IsNaN(r.Unrealised_PnL_AUD)

\* C7 witness: a computed table with a row whose Price is absent though its
\* Quantity is not, and a priced row whose Quantity is absent.
C7_Witness ==
    /\ ComputeReturned
    /\ \E i, j \in Rows :
         /\ IsNaN(portfolio[i].Price) /\ IsFinite(portfolio[i].Quantity)
         /\ ~snap[portfolio[i].Ticker].raises
         /\ IsFinite(portfolio[j].Price_AUD) /\ IsNaN(portfolio[j].Quantity)

RawTokens == {"NaN", "Infinity", "-Infinity"}

\* No number of the document is written as a bare NaN or Infinity token.
Sanitized(doc) ==
    \A i \in DOMAIN doc.rows :
       /\ doc.rows[i].Quantity.tok \notin RawTokens
       /\ doc.rows[i].CostBasis_AUD.tok \notin RawTokens

\* C8: the file save_holdings writes and the payload of the download button
\* hold no raw NaN or Infinity token.
C8_ExportSanitized ==
    /\ clicked = "save" => Sanitized(file)
    /\ Sanitized(payload)

\* The KeyErrors load_holdings raises on a file without a numeric column or
\* without Ticker.
LoadKeyErrors ==
    {"load_holdings: KeyError Quantity", "load_holdings: KeyError CostBasis_AUD",
     "load_holdings: KeyError Ticker"}

\* The KeyErrors the run raises on a table that has Ticker but lacks another
\* expected column.
MissingColumnErrors ==
    {"compute_portfolio: KeyError Quantity",
     "compute_portfolio: KeyError CostBasis_AUD", "show_cols: KeyError Notes"}

\* C9: a holdings document that lacks expected fields is accepted with the
\* fields filled in, by load_holdings and by the upload, and the run that
\* follows does not raise on a missing column.
C9_ImportDefaults ==
    /\ ~(pc = "aborted" /\ abort \in LoadKeyErrors)
    /\ up.kind = "record" =>
         /\ edited.cols = ColNames
         /\ ~(pc = "aborted" /\ abort \in MissingColumnErrors)

\* C10: after a malformed upload the error is shown and the table in memory
\* is the one from before the upload.
C10_MalformedUpload ==
    up.kind \in {"garbage", "array"} => uploadError /\ edited = preUpload

\* C4: adding a position whose ticker has no quote leaves every total as it
\* was, and the position's own Price_AUD, MarketValue_AUD and
\* Unrealised_PnL_AUD are absent.
C4_UnquotedPositionNeutral ==
    pc = "cp_done" =>
        /\ kpis = base
        /\ LET r == portfolio[Len(portfolio)]
           IN  /\ IsNaN(r.Price_AUD) /\ IsNaN(r.MarketValue_AUD)
               /\ IsNaN(r.Unrealised_PnL_AUD)

====
